---- MODULE Spec2Model ----
(***************************************************************************)
(* Model of Q, an interactive terminal chat client (Go).                   *)
(*   - Thread Store   : src/types.go  (getHistoryDir, saveConversation,    *)
(*                      loadConversation, listConversations)               *)
(*   - Provider Client: src/api.go    (isVertexModel, getReply, sendChat,  *)
(*                      sendVertexChat)                                    *)
(*   - Session Loop   : src/main.go   (main, the revision with threads)    *)
(*                                                                         *)
(* A Go string is a byte sequence.  It is modelled as a sequence of units: *)
(* a unit is one ASCII character ("h", "<", ...), the line feed "LF", the  *)
(* rune U+FFFD "uFFFD", or "xFF", a byte that is not valid UTF-8.          *)
(***************************************************************************)
EXTENDS Integers, Sequences, FiniteSets, TLC

VARIABLES
    dirs,        \* file system: the set of directories that exist (paths)
    files,       \* file system: FilePaths -> file (exists, items, closed)
    lastSaved,   \* history: per thread name, the conversation of its last save, while
                 \* no save under another name has written to the same file since
    saved,       \* history: per thread name, "never", "once" or "many" saves returned nil
    op,          \* the last Thread Store operation and what it returned
    pc,          \* where the process is: "command", "system", "chat", "exited", "crashed"
    messages,    \* main's messages: the in-memory transcript
    threadName,  \* main's threadName
    model,       \* the --model flag
    system,      \* the --system flag
    env,         \* the environment: OPENAI_API_KEY and GEMINI_API_KEY
    reply,       \* the last getReply call: its arguments and what came of it
    runs         \* how many times the program has been started

storeVars == <<dirs, files, lastSaved, saved, op>>
sessionVars == <<pc, messages, threadName, model, system, env, reply, runs>>
vars == <<dirs, files, lastSaved, saved, op, pc, messages, threadName, model, system,
          env, reply, runs>>

\* ------------------------------------------------------------------ bounds
\* Longest conversation handed to save.
MaxMsgs == 2

\* ------------------------------------------------------------- Go strings
Front(s) == SubSeq(s, 1, Len(s) - 1)
Last(s) == s[Len(s)]

RoleUser == <<"u", "s", "e", "r">>
RoleAssistant == <<"a", "s", "s", "i", "s", "t", "a", "n", "t">>
RoleSystem == <<"s", "y", "s", "t", "e", "m">>

\* Message{Role, Content}
Message(r, c) == [role |-> r, content |-> c]

\* ------------------------------------------------- encoding/json (strings)
\* What json.Encoder writes for one unit of a string: quote, backslash and
\* control characters are escaped, the encoder's default HTML escaping turns
\* "<" into a backslash-u 003c escape, and a byte that is not valid UTF-8 is
\* replaced by a backslash-u fffd escape (the replacement rune U+FFFD).
EscapeUnit(c) ==
    CASE c = "\"" -> <<"\\", "\"">>
      [] c = "\\" -> <<"\\", "\\">>
      [] c = "LF" -> <<"\\", "n">>
      [] c = "<" -> <<"\\", "u", "0", "0", "3", "c">>
      [] c = "xFF" -> <<"\\", "u", "f", "f", "f", "d">>
      [] OTHER -> <<c>>

\* The body of the JSON string literal written for the Go string s.
RECURSIVE Quote(_)
Quote(s) == IF s = <<>> THEN <<>> ELSE EscapeUnit(Head(s)) \o Quote(Tail(s))

\* The rune a \uXXXX escape stands for.
HexRune(h) ==
    CASE h = <<"0", "0", "3", "c">> -> "<"
      [] h = <<"f", "f", "f", "d">> -> "uFFFD"
      [] OTHER -> "uFFFD"

\* What json.Decoder reads back from the body of a string literal.
RECURSIVE Unquote(_)
Unquote(l) ==
    IF l = <<>> THEN <<>>
    ELSE IF Head(l) = "\\" /\ Len(l) >= 2
         THEN IF l[2] = "u" /\ Len(l) >= 6
              THEN <<HexRune(SubSeq(l, 3, 6))>> \o Unquote(SubSeq(l, 7, Len(l)))
              ELSE <<(IF l[2] = "n" THEN "LF" ELSE l[2])>>
                       \o Unquote(SubSeq(l, 3, Len(l)))
         ELSE <<(IF Head(l) = "xFF" THEN "uFFFD" ELSE Head(l))>> \o Unquote(Tail(l))

\* One array element of the document: {"role": ..., "content": ...}.
EncodeMessage(m) == [role |-> Quote(m.role), content |-> Quote(m.content)]
DecodeMessage(e) == [role |-> Unquote(e.role), content |-> Unquote(e.content)]

RECURSIVE EncodeItems(_)
EncodeItems(ms) ==
    IF ms = <<>> THEN <<>> ELSE <<EncodeMessage(Head(ms))>> \o EncodeItems(Tail(ms))

RECURSIVE DecodeItems(_)
DecodeItems(es) ==
    IF es = <<>> THEN <<>> ELSE <<DecodeMessage(Head(es))>> \o DecodeItems(Tail(es))

\* --------------------------------------------------------------- file system
\* A directory path is a sequence of names.  A file path is a directory and the
\* stem of a file named <stem>.json.  A file holds the array elements written
\* to it so far; closed says that the closing bracket of the array is there.
ConfigDir == <<"cfg">>
AppDir == ConfigDir \o <<"q">>
HistoryDir == AppDir \o <<"history">>

NoFile == [exists |-> FALSE, items |-> <<>>, closed |-> FALSE]
EmptyFile == [exists |-> TRUE, items |-> <<>>, closed |-> FALSE]

\* filepath.Join cleans the joined path: "." and "" are dropped, ".." drops the
\* name before it.
RECURSIVE Clean(_, _)
Clean(acc, rest) ==
    IF rest = <<>> THEN acc
    ELSE LET seg == Head(rest)
         IN  IF seg = "." \/ seg = "" THEN Clean(acc, Tail(rest))
             ELSE IF seg = ".."
                  THEN Clean(IF acc = <<>> THEN acc ELSE Front(acc), Tail(rest))
                  ELSE Clean(Append(acc, seg), Tail(rest))

\* A thread name is any string the user types; it is modelled as the sequence of
\* its "/"-separated segments.  filePath is
\* filepath.Join(historyDir, fmt.Sprintf("%s.json", threadName)).
filePath(name) ==
    [dir |-> Clean(<<>>, HistoryDir \o Front(name)), stem |-> Last(name)]

\* The thread names the model exercises: a plain name, a second spelling of it,
\* a name that climbs out of the history directory, and a name inside a
\* directory that does not exist.
ThreadNames == {<<"a">>, <<".", "a">>, <<"..", "a">>, <<"sub", "a">>}
FilePaths == {filePath(t) : t \in ThreadNames}

\* A variant of getHistoryDir without os.MkdirAll: the directory is used as it
\* is, as with the relative "history" path of the earlier revision.
getHistoryDirNoMkdir(d) == d

\* getHistoryDir: os.MkdirAll(<config dir>/q/history).
getHistoryDir(d) == d \cup {ConfigDir, AppDir, HistoryDir}

\* ------------------------------------------------------------ Thread Store
Ok(ms) == [ok |-> TRUE, err |-> "", msgs |-> ms]
Err(e) == [ok |-> FALSE, err |-> e, msgs |-> <<>>]

\* os.Create: fails when the directory of the path is missing, else leaves an
\* existing, empty (truncated) file.
CanCreate(d, path) == path.dir \in d
Created(f, path) == [f EXCEPT ![path] = EmptyFile]

\* encoder.Encode(messages) after k array elements have reached the file; the
\* whole document is there when k = Len(messages) and the array is closed.
Written(f, path, msgs, k, whole) ==
    [f EXCEPT ![path] = [exists |-> TRUE,
                         items |-> EncodeItems(SubSeq(msgs, 1, k)),
                         closed |-> whole]]

\* saveConversation(messages, threadName): the files it leaves and its error.
saveConversation(d, f, msgs, name) ==
    LET path == filePath(name)
    IN  IF ~CanCreate(getHistoryDir(d), path)
        THEN [files |-> f, err |-> "failed to create conversation file"]
        ELSE [files |-> Written(Created(f, path), path, msgs, Len(msgs), TRUE),
              err |-> ""]

\* A variant of loadConversation whose decoder accepts a document that ends
\* early and returns the messages read so far.
loadConversationLenient(d, f, name) ==
    LET path == filePath(name)
    IN  IF ~(path.dir \in getHistoryDir(d) /\ f[path].exists)
        THEN Err("failed to open conversation file")
        ELSE Ok(DecodeItems(f[path].items))

\* loadConversation(threadName): os.Open, then decoder.Decode.
loadConversation(d, f, name) ==
    LET path == filePath(name)
    IN  IF ~(path.dir \in getHistoryDir(d) /\ f[path].exists)
        THEN Err("failed to open conversation file")
        ELSE IF ~f[path].closed
             THEN Err("failed to decode conversation")
             ELSE Ok(DecodeItems(f[path].items))

\* os.ReadDir(historyDir) returns the entries sorted by file name.
DirOrder == <<"a", "b">>
InHistory(f, stem) ==
    LET path == [dir |-> HistoryDir, stem |-> stem]
    IN  path \in FilePaths /\ f[path].exists

\* listConversations(): the names of the *.json files of the history directory,
\* extension stripped.
listConversations(f) ==
    LET keep(stem) == InHistory(f, stem)
    IN  SelectSeq(DirOrder, keep)

\* Whether the listing names the thread, and how often: a listed name is a file
\* stem, so only a thread name of one segment can be listed.
Occurrences(lst, name) ==
    Cardinality({i \in DOMAIN lst : Len(name) = 1 /\ lst[i] = name[1]})

\* ---------------------------------------------------------- Provider Client
HasPrefix(s, p) == Len(s) >= Len(p) /\ SubSeq(s, 1, Len(p)) = p

Gemini == <<"g", "e", "m", "i", "n", "i">>

Contains(s, p) == \E i \in 1..(Len(s) - Len(p) + 1) : SubSeq(s, i, i + Len(p) - 1) = p

\* A variant of isVertexModel that uses strings.Contains.
isVertexModelContains(m) == Contains(m, Gemini)

\* A variant of isVertexModel that compares the whole model id.
isVertexModelExact(m) == m = Gemini

\* isVertexModel: strings.HasPrefix(model, "gemini").
isVertexModel(m) == HasPrefix(m, Gemini)

\* What a call of getReply comes to: a reply text, an error value, or a panic
\* of the process; net lists the requests that went out, backends the backend
\* functions that were entered.
NoInstruction == [set |-> FALSE, text |-> <<>>]
Request(to, m, auth, ms, ins, hist, turn) ==
    [to |-> to, model |-> m, auth |-> auth, msgs |-> ms, instruction |-> ins,
     history |-> hist, turn |-> turn]
Outcome(kind, text, err, net, backends) ==
    [outcome |-> kind, text |-> text, err |-> err, net |-> net, backends |-> backends]

\* The first choice's message content.
FirstContent(choices) == IF choices[1] = <<>> THEN <<>> ELSE choices[1][1]

\* A variant of sendChat that returns the content of the last choice.
sendChatLastChoice(apiKey, ms, m, resp) ==
    LET req == Request("openai", Quote(m), apiKey, EncodeItems(ms), NoInstruction,
                       <<>>, <<>>)
        fail(e, body) == Outcome("error", body, e, <<req>>, {"sendChat"})
    IN  IF resp.kind \in {"transport", "noclient"} THEN fail("transport", <<>>)
        ELSE IF resp.kind = "status" THEN fail("API error", resp.body)
        ELSE IF resp.kind = "garbled" THEN fail("decode", <<>>)
        ELSE IF Len(resp.choices) = 0 THEN fail("no choices in response", <<>>)
        ELSE Outcome("reply", FirstContent(<<Last(resp.choices)>>), "", <<req>>,
                     {"sendChat"})

\* sendChat(apiKey, messages, model); resp is what the network answers.  The
\* request body is json.Marshal of the model id and the messages.
sendChat(apiKey, ms, m, resp) ==
    LET req == Request("openai", Quote(m), apiKey, EncodeItems(ms), NoInstruction,
                       <<>>, <<>>)
        fail(e, body) == Outcome("error", body, e, <<req>>, {"sendChat"})
    IN  IF resp.kind \in {"transport", "noclient"} THEN fail("transport", <<>>)
        ELSE IF resp.kind = "status" THEN fail("API error", resp.body)
        ELSE IF resp.kind = "garbled" THEN fail("decode", <<>>)
        ELSE IF Len(resp.choices) = 0 THEN fail("no choices in response", <<>>)
        ELSE Outcome("reply", FirstContent(resp.choices), "", <<req>>, {"sendChat"})

\* A variant of History without the continue for unknown roles: whatever is not
\* an assistant message becomes a user turn.
HistoryKeepAll(ms) ==
    [i \in 1..Len(ms) |->
        [role |-> IF ms[i].role = RoleAssistant THEN "model" ELSE "user",
         text |-> ms[i].content]]

\* The loop of sendVertexChat over messages[:len(messages)-1]: user stays user,
\* assistant becomes model, any other role is skipped.
RECURSIVE History(_)
History(ms) ==
    IF ms = <<>> THEN <<>>
    ELSE LET msg == Head(ms)
         IN  IF msg.role = RoleUser
             THEN <<[role |-> "user", text |-> msg.content]>> \o History(Tail(ms))
             ELSE IF msg.role = RoleAssistant
                  THEN <<[role |-> "model", text |-> msg.content]>> \o History(Tail(ms))
                  ELSE History(Tail(ms))

\* A variant of vertexSession that sends the system message to the session as
\* a first turn instead of setting the system instruction.
vertexSessionSystemTurn(ms, m, e, resp) ==
    LET used == {"sendVertexChat"}
        hasSystem == Len(ms) > 0 /\ ms[1].role = RoleSystem
        rest == IF hasSystem THEN Tail(ms) ELSE ms
        first == IF hasSystem
                 THEN <<Request("gemini", m, e.gemini, <<>>, NoInstruction, <<>>,
                                ms[1].content)>>
                 ELSE <<>>
        req == Request("gemini", m, e.gemini, <<>>, NoInstruction,
                       History(Front(rest)), Last(rest).content)
    IN  IF resp.kind = "noclient"
        THEN Outcome("error", <<>>, "failed to create Gemini client", <<>>, used)
        ELSE IF resp.kind \in {"transport", "status", "garbled"} /\ hasSystem
        THEN Outcome("error", <<>>, "failed to send initial system message to Gemini",
                     first, used)
        ELSE IF Len(rest) = 0
        THEN Outcome("panic", <<>>, "slice bounds out of range", first, used)
        ELSE IF resp.kind \in {"transport", "status", "garbled"}
        THEN Outcome("error", <<>>, "failed to send message to Gemini",
                     first \o <<req>>, used)
        ELSE IF Len(resp.choices) = 0 \/ Len(resp.choices[1]) = 0
        THEN Outcome("error", <<>>, "no candidates in Gemini response",
                     first \o <<req>>, used)
        ELSE Outcome("reply", resp.choices[1][1], "", first \o <<req>>, used)

\* sendVertexChat once the credential is there: client, session, system
\* instruction, history and the one SendMessage.
vertexSession(ms, m, e, resp) ==
    LET used == {"sendVertexChat"}
        hasSystem == Len(ms) > 0 /\ ms[1].role = RoleSystem
        systemPrompt == IF hasSystem THEN ms[1].content ELSE <<>>
        rest == IF hasSystem THEN Tail(ms) ELSE ms
        ins == IF systemPrompt # <<>> THEN [set |-> TRUE, text |-> systemPrompt]
               ELSE NoInstruction
        req == Request("gemini", m, e.gemini, <<>>, ins, History(Front(rest)),
                       Last(rest).content)
    IN  IF resp.kind = "noclient"
        THEN Outcome("error", <<>>, "failed to create Gemini client", <<>>, used)
        ELSE IF Len(rest) = 0
        THEN Outcome("panic", <<>>, "makeslice: cap out of range", <<>>, used)
        ELSE IF resp.kind \in {"transport", "status", "garbled"}
        THEN Outcome("error", <<>>, "failed to send message to Gemini", <<req>>, used)
        ELSE IF Len(resp.choices) = 0 \/ Len(resp.choices[1]) = 0
        THEN Outcome("error", <<>>, "no candidates in Gemini response", <<req>>, used)
        ELSE Outcome("reply", resp.choices[1][1], "", <<req>>, used)

\* A variant of sendVertexChat that tests the other backend's credential.
sendVertexChatOtherKey(ms, m, e, resp) ==
    IF e.openai = <<>>
    THEN Outcome("error", <<>>, "GEMINI_API_KEY environment variable not set", <<>>,
                 {"sendVertexChat"})
    ELSE vertexSession(ms, m, e, resp)

\* sendVertexChat(messages, model); e is the environment, resp what the
\* network answers.
sendVertexChat(ms, m, e, resp) ==
    IF e.gemini = <<>>
    THEN Outcome("error", <<>>, "GEMINI_API_KEY environment variable not set", <<>>,
                 {"sendVertexChat"})
    ELSE vertexSession(ms, m, e, resp)

\* getReply(messages, model).
getReply(ms, m, e, resp) ==
    IF isVertexModel(m) THEN sendVertexChat(ms, m, e, resp)
    ELSE IF e.openai = <<>>
         THEN Outcome("error", <<>>,
                      "OPENAI_API_KEY environment variable not set for OpenAI model",
                      <<>>, {})
         ELSE sendChat(e.openai, ms, m, resp)

\* What the network can answer: no answer, a non-success status with a body, a
\* body that does not decode, no client, and a decoded answer with zero, one or
\* two choices (candidates), a candidate being the sequence of its parts.
TextReply == <<"o", "k">>
TextOther == <<"n", "o">>
TextBody == <<"4", "2", "9">>
Answer(kind, body, choices) == [kind |-> kind, body |-> body, choices |-> choices]
Responses ==
    {Answer("transport", <<>>, <<>>), Answer("noclient", <<>>, <<>>),
     Answer("status", TextBody, <<>>), Answer("garbled", <<>>, <<>>),
     Answer("ok", <<>>, <<>>), Answer("ok", <<>>, <<<<>>>>),
     Answer("ok", <<>>, <<<<TextReply>>>>),
     Answer("ok", <<>>, <<<<TextReply, TextOther>>, <<TextOther>>>>)}

Key == <<"k">>
Envs == [openai : {<<>>, Key}, gemini : {<<>>, Key}]

NoReply ==
    [called |-> FALSE, msgs |-> <<>>, model |-> <<>>, answer |-> "none",
     choices |-> <<>>, res |-> Outcome("none", <<>>, "", <<>>, {})]

\* ------------------------------------------------- Thread Store, as a machine
\* Contents: text that needs every kind of escape, and a byte that is not valid
\* UTF-8 (a command-line argument or a piped line can carry one).
TextPlain == <<"h", "i">>
TextEscaped == <<"h", "\"", "<", "\\", "LF">>
TextInvalid == <<"xFF">>

StoreMsgs == {Message(RoleUser, TextEscaped), Message(RoleAssistant, TextInvalid)}

SeqsUpTo(S, n) == UNION {[1..k -> S] : k \in 0..n}
StoreConvs == SeqsUpTo(StoreMsgs, MaxMsgs)

\* var threadName string: the empty string, one empty segment.
NoName == <<"">>

Unset == [set |-> FALSE, conv |-> <<>>]
NoOp ==
    [kind |-> "none", name |-> <<>>, ok |-> TRUE, err |-> "", msgs |-> <<>>,
     list |-> <<>>]

\* A fresh system: the user's config directory exists and nothing else.
InitStore ==
    /\ dirs = {ConfigDir}
    /\ files = [p \in FilePaths |-> NoFile]
    /\ lastSaved = [t \in ThreadNames |-> Unset]
    /\ saved = [t \in ThreadNames |-> "never"]
    /\ op = NoOp
    /\ pc = "store"
    /\ messages = <<>>
    /\ threadName = NoName
    /\ model = <<>>
    /\ system = <<>>
    /\ env = [openai |-> <<>>, gemini |-> <<>>]
    /\ reply = NoReply
    /\ runs = 0

Bump(n) == IF n = "never" THEN "once" ELSE "many"

\* save(T, C) runs to its return.
Save(name, msgs) ==
    \E r \in {saveConversation(dirs, files, msgs, name)} :
        /\ dirs' = getHistoryDir(dirs)
        /\ files' = r.files
        /\ lastSaved' = [t \in ThreadNames |->
                            IF t = name
                            THEN (IF r.err = "" THEN [set |-> TRUE, conv |-> msgs]
                                  ELSE Unset)
                            ELSE IF r.err = "" /\ filePath(t) = filePath(name)
                                 THEN Unset
                                 ELSE lastSaved[t]]
        /\ saved' = [saved EXCEPT ![name] =
                            IF r.err = "" THEN Bump(@) ELSE @]
        /\ op' = [NoOp EXCEPT !.kind = "save", !.name = name,
                                !.ok = (r.err = "")]

\* save(T, C) when the process is killed (or the write fails) after os.Create
\* and before the document is whole: the array elements of reached, a prefix of
\* C, have reached the file.
SaveKilled(name, reached) ==
    LET path == filePath(name)
    IN  /\ CanCreate(getHistoryDir(dirs), path)
        /\ dirs' = getHistoryDir(dirs)
        /\ files' = Written(Created(files, path), path, reached, Len(reached), FALSE)
        /\ lastSaved' = [t \in ThreadNames |->
                            IF filePath(t) = filePath(name) THEN Unset
                            ELSE lastSaved[t]]
        /\ saved' = saved
        /\ op' = [NoOp EXCEPT !.kind = "kill", !.name = name, !.ok = FALSE]

\* load(T).
Load(name) ==
    \E r \in {loadConversation(dirs, files, name)} :
        /\ dirs' = getHistoryDir(dirs)
        /\ op' = [NoOp EXCEPT !.kind = "load", !.name = name,
                                !.ok = r.ok, !.err = r.err, !.msgs = r.msgs]
        /\ UNCHANGED <<files, lastSaved, saved>>

\* list(): getHistoryDir, then os.ReadDir, which fails when the directory is
\* not there, then the filter of listConversations.
List ==
    /\ dirs' = getHistoryDir(dirs)
    /\ op' = IF HistoryDir \in getHistoryDir(dirs)
             THEN [NoOp EXCEPT !.kind = "list", !.list = listConversations(files)]
             ELSE [NoOp EXCEPT !.kind = "list", !.ok = FALSE,
                               !.err = "failed to read history directory"]
    /\ UNCHANGED <<files, lastSaved, saved>>

\* The Thread Store driven directly through its three operations.
ApiSave ==
    /\ \E t \in ThreadNames, c \in StoreConvs : Save(t, c)
    /\ UNCHANGED sessionVars

ApiSaveKilled ==
    /\ \E t \in ThreadNames, c \in StoreConvs : SaveKilled(t, c)
    /\ UNCHANGED sessionVars

ApiLoad ==
    /\ \E t \in ThreadNames : Load(t)
    /\ UNCHANGED sessionVars

ApiList ==
    /\ List
    /\ UNCHANGED sessionVars

NextStore == ApiSave \/ ApiSaveKilled \/ ApiLoad \/ ApiList

SpecStore == InitStore /\ [][NextStore]_vars

\* ------------------------------------------- Provider Client, called directly
\* Longest conversation handed to getReply.
MaxReplyMsgs == 3

RoleTool == <<"t", "o", "o", "l">>
TextSystem == <<"b", "e">>
ReplyMsgs ==
    {Message(RoleSystem, TextSystem), Message(RoleSystem, <<>>),
     Message(RoleUser, TextPlain), Message(RoleAssistant, TextReply),
     Message(RoleTool, TextOther)}
ReplyConvs == SeqsUpTo(ReplyMsgs, MaxReplyMsgs)

\* Model ids: two with the prefix, one that holds "gemini" elsewhere, one that
\* is a proper prefix of "gemini", one OpenAI id and the empty id.
ModelIds ==
    {Gemini, Gemini \o <<"-", "1">>, <<"x", "-">> \o Gemini, <<"g", "e", "m">>,
     <<"g", "p", "t">>, <<>>}

InitReply ==
    /\ dirs = {ConfigDir}
    /\ files = [p \in FilePaths |-> NoFile]
    /\ lastSaved = [t \in ThreadNames |-> Unset]
    /\ saved = [t \in ThreadNames |-> "never"]
    /\ op = NoOp
    /\ pc = "call"
    /\ messages \in ReplyConvs
    /\ threadName = NoName
    /\ model \in ModelIds
    /\ system = <<>>
    /\ env \in Envs
    /\ reply = NoReply
    /\ runs = 0

\* One call getReply(messages, model) and the network's answer to it.
CallGetReply ==
    /\ pc = "call"
    /\ \E resp \in Responses :
         \E r \in {getReply(messages, model, env, resp)} :
            /\ reply' = [called |-> TRUE, msgs |-> messages, model |-> model,
                         answer |-> resp.kind, choices |-> resp.choices, res |-> r]
            /\ pc' = IF r.outcome = "panic" THEN "crashed" ELSE "returned"
    /\ UNCHANGED <<messages, threadName, model, system, env, runs>>
    /\ UNCHANGED storeVars

NextReply == CallGetReply

SpecReply == InitReply /\ [][NextReply]_vars

\* --------------------------------------------------------------- Session Loop
\* A chat turn may start while the transcript is shorter than this.
MaxTranscript == 3
\* The program is started at most this many times on the same file system.
MaxSessions == 2

SessionModels == {Gemini, <<"g", "p", "t">>}
SystemFlags == {<<>>, TextSystem}
SessionNames == {<<"a">>, <<"sub", "a">>}
Inputs == {TextPlain}
\* Both credentials set, or only the Gemini one.
SessionEnvs == {e \in Envs : e.gemini = Key}
\* The network does not answer, answers with zero choices, with one candidate
\* of zero parts, or with one reply.
SessionResponses ==
    {Answer("transport", <<>>, <<>>), Answer("ok", <<>>, <<>>),
     Answer("ok", <<>>, <<<<>>>>), Answer("ok", <<>>, <<<<TextReply>>>>)}

Called(sent, resp, r) ==
    [called |-> TRUE, msgs |-> sent, model |-> model, answer |-> resp.kind,
     choices |-> resp.choices, res |-> r]

\* A variant of afterReply without the continue of the error branch.
afterReplyNoContinue(ms, r) == Append(ms, Message(RoleAssistant, r.text))

\* A variant of afterReply that puts the reply in front of the transcript.
afterReplyInFront(ms, r) ==
    IF r.outcome = "reply" THEN <<Message(RoleAssistant, r.text)>> \o ms ELSE ms

\* A variant of afterReply that takes the user message back when the call fails.
afterReplyDropOnError(ms, r) ==
    IF r.outcome = "reply" THEN Append(ms, Message(RoleAssistant, r.text))
    ELSE Front(ms)

\* After getReply returns: the error is printed and nothing appended, or the
\* reply is appended as an assistant message.
afterReply(ms, r) ==
    IF r.outcome = "reply" THEN Append(ms, Message(RoleAssistant, r.text)) ELSE ms

\* The process starts: flags parsed, var messages []Message, var threadName string.
Init ==
    /\ dirs = {ConfigDir}
    /\ files = [p \in FilePaths |-> NoFile]
    /\ lastSaved = [t \in ThreadNames |-> Unset]
    /\ saved = [t \in ThreadNames |-> "never"]
    /\ op = NoOp
    /\ pc = "start"
    /\ messages = <<>>
    /\ threadName = NoName
    /\ model \in SessionModels
    /\ system \in SystemFlags
    /\ env \in SessionEnvs
    /\ reply = NoReply
    /\ runs = 1

\* main lists the stored conversations before the first prompt.
Startup ==
    /\ pc = "start"
    /\ List
    /\ pc' = "command"
    /\ UNCHANGED <<messages, threadName, model, system, env, reply, runs>>

\* A typed line is a sequence of tokens: a space " ", a path separator "/", the
\* command word "/load", or a run of other characters ("a", "sub").
\* strings.TrimSpace takes the spaces off both ends.
RECURSIVE TrimLeft(_)
TrimLeft(s) == IF s # <<>> /\ Head(s) = " " THEN TrimLeft(Tail(s)) ELSE s
RECURSIVE TrimRight(_)
TrimRight(s) == IF s # <<>> /\ Last(s) = " " THEN TrimRight(Front(s)) ELSE s
TrimSpace(s) == TrimRight(TrimLeft(s))

\* strings.TrimPrefix.
TrimPrefix(s, p) == IF HasPrefix(s, p) THEN SubSeq(s, Len(p) + 1, Len(s)) ELSE s

\* The thread name a trimmed text stands for, as its "/"-separated segments; the
\* empty text is the empty name, one empty segment.
RECURSIVE Segments(_, _)
Segments(seg, rest) ==
    IF rest = <<>> THEN <<seg>>
    ELSE IF Head(rest) = "/" THEN <<seg>> \o Segments("", Tail(rest))
         ELSE Segments(Head(rest), Tail(rest))
ThreadNameOf(s) == Segments("", s)

\* What the user types at the name prompt of /new, and the lines typed at the
\* command prompt that start with the word /load.
TypedNames ==
    {<<"a">>, <<" ", "a", " ">>, <<"sub", "/", "a">>, <<>>, <<" ">>, <<" ", " ">>}
LoadPrefix == <<"/load", " ">>
LoadLines ==
    {<<"/load", " ", "a">>, <<" ", "/load", " ", "a", " ">>,
     <<"/load", " ", "sub", "/", "a">>, <<"/load">>, <<"/load", " ">>,
     <<"/load", " ", " ">>}

\* A variant of emptyName that refuses nothing.
emptyNameNever(name) == FALSE

\* if threadName == "": the name /new refuses.
emptyName(name) == name = NoName

\* "/load <name>": on error the command loop continues, else the loaded
\* messages become the transcript.
CmdLoad ==
    /\ pc = "command"
    /\ \E typed \in LoadLines :
         \E line \in {TrimSpace(typed)} :
           /\ HasPrefix(line, LoadPrefix)
           /\ \E n \in {ThreadNameOf(TrimPrefix(line, LoadPrefix))} :
                /\ Load(n)
                /\ \E r \in {loadConversation(dirs, files, n)} :
                     IF r.ok
                     THEN messages' = r.msgs /\ threadName' = n /\ pc' = "system"
                     ELSE UNCHANGED <<messages, threadName, pc>>
    /\ UNCHANGED <<model, system, env, reply, runs>>

\* A line that is none of /load <name>, /new and /list: "Invalid command", and
\* the prompt comes back.
CmdInvalid ==
    /\ pc = "command"
    /\ \E typed \in LoadLines : ~HasPrefix(TrimSpace(typed), LoadPrefix)
    /\ UNCHANGED vars

\* "/new" and the name typed at its prompt: threadName is the trimmed name, and
\* an empty one is refused.
CmdNew ==
    /\ pc = "command"
    /\ \E typed \in TypedNames :
         \E name \in {ThreadNameOf(TrimSpace(typed))} :
           /\ threadName' = name
           /\ IF emptyName(name)
              THEN UNCHANGED <<messages, pc>>
              ELSE messages' = <<>> /\ pc' = "system"
    /\ UNCHANGED <<model, system, env, reply, runs>>
    /\ UNCHANGED storeVars

\* "/list".
CmdList ==
    /\ pc = "command"
    /\ List
    /\ UNCHANGED sessionVars

\* End of input at the command prompt.
CmdEOF ==
    /\ pc = "command"
    /\ pc' = "exited"
    /\ UNCHANGED <<messages, threadName, model, system, env, reply, runs>>
    /\ UNCHANGED storeVars

\* if *system != "": the system message is appended and sent for a first reply.
SystemPrompt ==
    /\ pc = "system"
    /\ IF system = <<>>
       THEN pc' = "chat" /\ UNCHANGED <<messages, reply>>
       ELSE \E resp \in SessionResponses :
              \E sent \in {Append(messages, Message(RoleSystem, system))} :
                \E r \in {getReply(sent, model, env, resp)} :
                   /\ messages' = afterReply(sent, r)
                   /\ reply' = Called(sent, resp, r)
                   /\ pc' = IF r.outcome = "panic" THEN "crashed" ELSE "chat"
    /\ UNCHANGED <<threadName, model, system, env, runs>>
    /\ UNCHANGED storeVars

\* A variant of ChatTurn that saves the conversation after every turn.
ChatTurnAutoSave ==
    /\ pc = "chat"
    /\ Len(messages) < MaxTranscript
    /\ \E input \in Inputs, resp \in SessionResponses :
         \E sent \in {Append(messages, Message(RoleUser, input))} :
           \E r \in {getReply(sent, model, env, resp)} :
              /\ messages' = afterReply(sent, r)
              /\ reply' = Called(sent, resp, r)
              /\ pc' = IF r.outcome = "panic" THEN "crashed" ELSE "chat"
              /\ Save(threadName, afterReply(sent, r))
    /\ UNCHANGED <<threadName, model, system, env, runs>>

\* One chat turn: a non-empty input is appended as a user message and the
\* transcript is sent.
ChatTurn ==
    /\ pc = "chat"
    /\ Len(messages) < MaxTranscript
    /\ \E input \in Inputs, resp \in SessionResponses :
         \E sent \in {Append(messages, Message(RoleUser, input))} :
           \E r \in {getReply(sent, model, env, resp)} :
              /\ messages' = afterReply(sent, r)
              /\ reply' = Called(sent, resp, r)
              /\ pc' = IF r.outcome = "panic" THEN "crashed" ELSE "chat"
    /\ UNCHANGED <<threadName, model, system, env, runs>>
    /\ UNCHANGED storeVars

\* "exit", and "yes" at the save prompt.
ExitSave ==
    /\ pc = "chat"
    /\ IF threadName # NoName
       THEN Save(threadName, messages)
       ELSE UNCHANGED storeVars
    /\ pc' = "exited"
    /\ UNCHANGED <<messages, threadName, model, system, env, reply, runs>>

\* "exit", "yes", and the process is killed while saveConversation writes.
ExitSaveKilled ==
    /\ pc = "chat"
    /\ threadName # NoName
    /\ \E k \in 0..Len(messages) : SaveKilled(threadName, SubSeq(messages, 1, k))
    /\ pc' = "killed"
    /\ UNCHANGED <<messages, threadName, model, system, env, reply, runs>>

\* "exit" and another answer or a read error at the save prompt, or end of
\* input at the chat prompt.
ExitNoSave ==
    /\ pc = "chat"
    /\ pc' = "exited"
    /\ UNCHANGED <<messages, threadName, model, system, env, reply, runs>>
    /\ UNCHANGED storeVars

\* The user starts the program again; the files are what the last run left.
Restart ==
    /\ pc \in {"exited", "crashed", "killed"}
    /\ runs < MaxSessions
    /\ runs' = runs + 1
    /\ pc' = "start"
    /\ messages' = <<>>
    /\ threadName' = NoName
    /\ reply' = NoReply
    /\ system' \in SystemFlags
    /\ op' = NoOp
    /\ UNCHANGED <<model, env, dirs, files, lastSaved, saved>>

Next ==
    \/ Startup
    \/ CmdLoad
    \/ CmdNew
    \/ CmdInvalid
    \/ CmdList
    \/ CmdEOF
    \/ SystemPrompt
    \/ ChatTurn
    \/ ExitSave
    \/ ExitSaveKilled
    \/ ExitNoSave
    \/ Restart

Spec == Init /\ [][Next]_vars

\* ===================================================================== claims

\* ------------------------------------------------------------- Thread Store
\* C1 (SpecStore): a load(T) that follows a successful save(T, C), with no save
\* to the file of T in between, succeeds and returns exactly C: same roles, same
\* contents, same order.
C1_RoundTrip ==
    (op.kind = "load" /\ lastSaved[op.name].set)
        => (op.ok /\ op.msgs = lastSaved[op.name].conv)

\* Text that is valid UTF-8: no unit is a stray byte.
ValidText(t) == \A i \in DOMAIN t : t[i] # "xFF"
ValidConv(c) == \A i \in DOMAIN c : ValidText(c[i].role) /\ ValidText(c[i].content)

\* The round trip of C1 for the conversations whose roles and contents are
\* valid UTF-8 (SpecStore).
RoundTripValidText ==
    (op.kind = "load" /\ lastSaved[op.name].set /\ ValidConv(lastSaved[op.name].conv))
        => (op.ok /\ op.msgs = lastSaved[op.name].conv)

\* C8 (SpecStore): at every point of every execution a stored file holds a
\* complete conversation, never an empty or partial document.
C8_SaveAtomic == \A p \in FilePaths : files[p].exists => files[p].closed

\* C9 (SpecStore): list() names every thread whose save has succeeded, once or
\* several times, exactly once.
C9_ListedOnce ==
    op.kind = "list"
        => \A t \in ThreadNames : saved[t] # "never" => Occurrences(op.list, t) = 1

\* The listing of C9 for the thread names of one segment, whose file lies in
\* the history directory (SpecStore).
ListedOncePlainNames ==
    op.kind = "list"
        => \A t \in ThreadNames :
             (saved[t] # "never" /\ Len(t) = 1) => Occurrences(op.list, t) = 1

\* C10 (SpecStore): after two or more successful saves of T, a load(T) returns
\* exactly the conversation of the last one, whatever its length.
C10_OverwriteWholesale ==
    (op.kind = "load" /\ saved[op.name] = "many" /\ lastSaved[op.name].set)
        => (op.ok /\ op.msgs = lastSaved[op.name].conv)

\* The overwrite of C10 for the conversations whose roles and contents are
\* valid UTF-8 (SpecStore).
OverwriteValidText ==
    (op.kind = "load" /\ saved[op.name] = "many" /\ lastSaved[op.name].set
       /\ ValidConv(lastSaved[op.name].conv))
        => (op.ok /\ op.msgs = lastSaved[op.name].conv)

\* The thread names a listing returns, and the thread names saved so far.
Listed == {<<op.list[i]>> : i \in DOMAIN op.list}
SavedNames == {t \in ThreadNames : saved[t] # "never"}

\* C18 (SpecStore): from an empty store, after any sequence of saves, the set
\* list() returns is the set of the thread names saved so far.
C18_ListIsSavedSet == op.kind = "list" => Listed = SavedNames

\* The first half of C18 (SpecStore): list() returns the stems of the files
\* that exist in the history directory, each once.
ListIsHistoryFiles ==
    op.kind = "list"
        => /\ Listed = {<<p.stem>> : p \in {q \in FilePaths :
                                               q.dir = HistoryDir /\ files[q].exists}}
           /\ Cardinality(Listed) = Len(op.list)

\* No save has returned yet, except the one just made, and no file was there
\* before it.
FirstSave ==
    /\ op.kind = "save"
    /\ saved[op.name] # "many"
    /\ \A t \in ThreadNames \ {op.name} : saved[t] = "never"
    /\ \A p \in FilePaths \ {filePath(op.name)} : ~files[p].exists

\* C19 (SpecStore): after the first call of list, save or load the history
\* directory exists; a list() on a system without files returns the empty set
\* without error, and the first save succeeds.
C19_LazyDirectory ==
    /\ op.kind # "none" => HistoryDir \in dirs
    /\ (op.kind = "list" /\ \A p \in FilePaths : ~files[p].exists)
          => (op.ok /\ op.list = <<>>)
    /\ FirstSave => op.ok

\* C19 for the thread names of one segment, whose file lies in the history
\* directory (SpecStore).
LazyDirectoryPlainNames ==
    /\ op.kind # "none" => HistoryDir \in dirs
    /\ (op.kind = "list" /\ \A p \in FilePaths : ~files[p].exists)
          => (op.ok /\ op.list = <<>>)
    /\ (FirstSave /\ Len(op.name) = 1) => op.ok

\* The thread names list() would return for the files f.
ListedIn(f) ==
    LET lst == listConversations(f)
    IN  {<<lst[i]>> : i \in DOMAIN lst}

\* C22 (SpecStore): a save(T, C) that returns leaves load(T') as it was for
\* every thread name T' other than T, and the listing after it is the listing
\* before it, or that listing and T.
C22_SaveFrame ==
    [][op'.kind = "save"
         => /\ \A t \in ThreadNames \ {op'.name} :
                 loadConversation(dirs', files', t) = loadConversation(dirs, files, t)
            /\ ListedIn(files) \subseteq ListedIn(files')
            /\ ListedIn(files') \ ListedIn(files) \subseteq {op'.name}]_vars

\* The frame of C22 by files (SpecStore): a save(T, C) leaves load(T') as it was
\* for every thread name T' whose file is not the file of T, and adds at most
\* the stem of T's file to the listing.
SaveFrameOtherFiles ==
    [][op'.kind = "save"
         => /\ \A t \in ThreadNames :
                 filePath(t) # filePath(op'.name)
                   => loadConversation(dirs', files', t)
                        = loadConversation(dirs, files, t)
            /\ ListedIn(files) \subseteq ListedIn(files')
            /\ ListedIn(files') \ ListedIn(files)
                 \subseteq {<<filePath(op'.name).stem>>}]_vars

C12_SystemIgnored ==
    [][(SystemPrompt /\ Len(messages) >= 1)
         => (messages' = messages /\ reply' = reply)]_vars

\* C16 (Spec): a step changes a stored file only if it is the exit of a session
\* with a selected thread, answered yes at the save prompt; start, /new, /load,
\* /list, the system prompt, a chat turn, an exit without yes and end of input
\* leave every stored file as it was.
C16_ExplicitSaveOnly ==
    [][(files' # files)
         => /\ pc = "chat"
            /\ pc' \in {"exited", "killed"}
            /\ threadName # NoName
            /\ op'.kind \in {"save", "kill"}
            /\ op'.name = threadName]_vars

\* Second run: thread "a" was loaded and a chat turn got its reply, and the
\* file of "a" still holds the shorter conversation of the first run's save.
C16_Witness ==
    /\ runs = 2
    /\ pc = "chat"
    /\ threadName = <<"a">>
    /\ reply.called
    /\ reply.res.outcome = "reply"
    /\ lastSaved[<<"a">>].set
    /\ files[filePath(<<"a">>)].closed
    /\ files[filePath(<<"a">>)].items = EncodeItems(lastSaved[<<"a">>].conv)
    /\ Len(messages) > Len(lastSaved[<<"a">>].conv)

\* C17 (Spec): in the chat loop the transcript changes only by a chat turn, and
\* a chat turn is: one user message with the input is put at the end, the call
\* of getReply carries exactly that transcript, and the transcript after the
\* step is the one sent, followed on success by one assistant message with the
\* reply; what was in the transcript before stays in place.
C17_TurnOrder ==
    [][(pc = "chat" /\ messages' # messages)
         => /\ reply'.called
            /\ Len(reply'.msgs) = Len(messages) + 1
            /\ SubSeq(reply'.msgs, 1, Len(messages)) = messages
            /\ Last(reply'.msgs).role = RoleUser
            /\ Last(reply'.msgs).content \in Inputs
            /\ Len(reply'.res.net) <= 1
            /\ \A i \in DOMAIN reply'.res.net :
                 reply'.res.net[i].to = "gemini"
                    \/ reply'.res.net[i].msgs = EncodeItems(reply'.msgs)
            /\ messages' =
                 (IF reply'.res.outcome = "reply"
                  THEN Append(reply'.msgs,
                              Message(RoleAssistant, reply'.res.text))
                  ELSE reply'.msgs)]_vars

\* Two chat turns were answered: user, assistant, user, assistant.
C17_Witness ==
    /\ pc = "chat"
    /\ reply.called
    /\ reply.res.outcome = "reply"
    /\ Len(messages) = 4
    /\ messages[1].role = RoleUser
    /\ messages[2].role = RoleAssistant
    /\ messages[3].role = RoleUser
    /\ messages[4] = Message(RoleAssistant, reply.res.text)
    /\ reply.msgs = SubSeq(messages, 1, 3)

\* The number of user messages of a conversation.
UserCount(ms) == Cardinality({i \in DOMAIN ms : ms[i].role = RoleUser})

\* C20 (Spec): every input submitted in the chat loop raises the number of user
\* messages of the transcript by one, whether its getReply call fails or not,
\* and no other step of the chat loop changes the transcript; the call that
\* follows a failed one carries the whole conversation of the failed call,
\* its user message included, and one more user message.
C20_FailedTurnKept ==
    [][pc = "chat"
         => \/ messages' = messages
            \/ /\ UserCount(messages') = UserCount(messages) + 1
               /\ reply'.called
               /\ UserCount(reply'.msgs) = UserCount(messages) + 1
               /\ (reply.called /\ reply.res.outcome = "error")
                    => /\ SubSeq(reply'.msgs, 1, Len(reply.msgs)) = reply.msgs
                       /\ Len(reply'.msgs) = Len(reply.msgs) + 1]_vars

\* A first turn failed for the missing OpenAI credential or on the network, the
\* second call carried both user messages, and the transcript holds both.
C20_Witness ==
    /\ pc = "chat"
    /\ reply.called
    /\ Len(reply.msgs) = 2
    /\ reply.msgs[1].role = RoleUser
    /\ reply.msgs[2].role = RoleUser
    /\ reply.res.outcome = "error"
    /\ messages = reply.msgs
    /\ UserCount(messages) = 2

\* C21 (Spec): once a conversation is selected and the chat loop runs, the
\* thread name is not empty, and no save is ever called with an empty thread
\* name, whatever was typed at the prompts of /new and /load.
C21_NameNeverEmpty ==
    /\ pc \in {"system", "chat", "crashed", "killed"} => threadName # NoName
    /\ op.kind \in {"save", "kill"} => op.name # NoName

\* A session whose thread was named at the /new prompt ended with exit and
\* yes: the save was called with that name and returned nil.
C21_Witness ==
    /\ pc = "exited"
    /\ runs = 1
    /\ op.kind = "save"
    /\ op.ok
    /\ op.name = threadName
    /\ threadName = <<"a">>

\* ---------------------------------------------------------- Provider Client
\* The requests of the last getReply call.
Net == reply.res.net
StartsWithGemini == HasPrefix(reply.model, Gemini)

UsedBackend ==
    IF reply.res.backends = {"sendVertexChat"} THEN "gemini"
    ELSE IF reply.res.backends = {"sendChat"}
            \/ reply.res.err
                 = "OPENAI_API_KEY environment variable not set for OpenAI model"
         THEN "openai"
         ELSE "none"

SessionRest ==
    IF Len(reply.msgs) > 0 /\ reply.msgs[1].role = RoleSystem
    THEN Tail(reply.msgs) ELSE reply.msgs

\* The prior turns the claim describes: of all messages but the last, those of
\* role user or assistant, in their order, user as user and assistant as model.
PriorTurns(ms) ==
    LET spoken(msg) == msg.role \in {RoleUser, RoleAssistant}
        sel == SelectSeq(Front(ms), spoken)
    IN  [i \in 1..Len(sel) |->
            [role |-> IF sel[i].role = RoleUser THEN "user" ELSE "model",
             text |-> sel[i].content]]

\* C14 (SpecReply): a call for a "gemini" model, with the credential set and a
\* client, whose conversation holds n >= 1 messages after a leading system
\* message is taken off, makes one request to the session: its history is the
\* user and assistant messages among the first n-1, in order, as user and model
\* turns, every other role left out, and its turn is the content of message n.
C14_TurnMapping ==
    (reply.called /\ StartsWithGemini /\ env.gemini # <<>>
       /\ reply.answer # "noclient" /\ Len(SessionRest) >= 1)
        => /\ Len(Net) = 1
           /\ Net[1].to = "gemini"
           /\ Net[1].history = PriorTurns(SessionRest)
           /\ Net[1].turn = Last(SessionRest).content

\* A user message, a message of an unknown role and a last message of role
\* assistant: one prior turn went out and the assistant's content was the turn.
C14_Witness ==
    /\ reply.called
    /\ StartsWithGemini
    /\ Len(reply.msgs) = 3
    /\ reply.msgs[1].role = RoleUser
    /\ reply.msgs[2].role = RoleTool
    /\ reply.msgs[3].role = RoleAssistant
    /\ Len(Net) = 1
    /\ Net[1].history = <<[role |-> "user", text |-> TextPlain]>>
    /\ Net[1].turn = TextReply

\* The last call reached sendChat, and what the request body has to be: the
\* JSON form of the model id and of every message, in order.
CompletionCall == reply.called /\ reply.res.backends = {"sendChat"}
FullRequest ==
    /\ Len(Net) = 1
    /\ Net[1].to = "openai"
    /\ Net[1].model = Quote(reply.model)
    /\ Len(Net[1].msgs) = Len(reply.msgs)
    /\ \A i \in DOMAIN reply.msgs : Net[1].msgs[i] = EncodeMessage(reply.msgs[i])

\* The three outcomes the claim lists, by the answer of the network.
StatusOutcome ==
    /\ reply.answer = "status"
    /\ reply.res.outcome = "error"
    /\ reply.res.err = "API error"
    /\ reply.res.text = TextBody
FirstChoiceOutcome ==
    /\ reply.answer = "ok"
    /\ Len(reply.choices) >= 1
    /\ reply.res.outcome = "reply"
    /\ reply.res.text = FirstContent(reply.choices)
NoChoiceOutcome ==
    /\ reply.answer = "ok"
    /\ Len(reply.choices) = 0
    /\ reply.res.outcome = "error"
    /\ reply.res.err = "no choices in response"

\* The outcomes the claim leaves out: the request gets no response, or the body
\* of a success response does not decode.
TransportOutcome ==
    /\ reply.answer \in {"transport", "noclient"}
    /\ reply.res.outcome = "error"
    /\ reply.res.err = "transport"
DecodeOutcome ==
    /\ reply.answer = "garbled"
    /\ reply.res.outcome = "error"
    /\ reply.res.err = "decode"

\* C15 (SpecReply), as stated: a call of the completion-style backend sends
\* the model id and the full message list, and ends in one of three ways: a
\* non-success status gives an error with the raw body, a success response with
\* a choice gives the first choice's content, a success response with zero
\* choices gives an error; there is no other outcome.
C15_ThreeOutcomes ==
    CompletionCall
        => (FullRequest /\ (StatusOutcome \/ FirstChoiceOutcome \/ NoChoiceOutcome))

\* C15 (SpecReply), amended: the same, with two more outcomes, each an error: the
\* request gets no response, or a success response has a body that does not
\* decode.
C15_FiveOutcomes ==
    CompletionCall
        => /\ FullRequest
           /\ \/ StatusOutcome
              \/ FirstChoiceOutcome
              \/ NoChoiceOutcome
              \/ TransportOutcome
              \/ DecodeOutcome

\* A conversation that starts with a system message went out whole, and the
\* success response that came back did not decode.
C15_Witness ==
    /\ CompletionCall
    /\ Len(reply.msgs) = 3
    /\ reply.msgs[1] = Message(RoleSystem, TextSystem)
    /\ Net[1].msgs[1] = EncodeMessage(reply.msgs[1])
    /\ DecodeOutcome

\* C3 (Spec): getReply always ends by returning a reply or an error value; it
\* never takes the process down.
C3_GetReplyReturns == pc # "crashed"

\* C4 (Spec): the transcript holds at most one system message, and only at
\* index 0.
C4_SystemFirstOnly ==
    \A i \in DOMAIN messages : messages[i].role = RoleSystem => i = 1

\* C5 (SpecReply): when the first message has role system, the session-style
\* backend makes one request; its standing instruction is the content of that
\* message (set when the content is not empty), its history holds user and
\* model turns taken from the messages between the first and the last only,
\* and the turn it submits is the last message, which is not the first.
C5_SystemInstructionSeparate ==
    (reply.called /\ StartsWithGemini /\ Len(reply.msgs) > 0
       /\ reply.msgs[1].role = RoleSystem)
        => /\ Len(Net) <= 1
           /\ \A i \in DOMAIN Net :
                /\ Net[i].instruction.text = reply.msgs[1].content
                /\ Net[i].instruction.set = (reply.msgs[1].content # <<>>)
                /\ Len(Net[i].history) <= Len(reply.msgs) - 2
                /\ \A j \in DOMAIN Net[i].history :
                     Net[i].history[j].role \in {"user", "model"}
                /\ Len(reply.msgs) >= 2
                /\ Net[i].turn = Last(reply.msgs).content

\* A system message, a user turn and an assistant turn before the last message:
\* the request carries the instruction and a history of two turns.
C5_Witness ==
    /\ reply.called
    /\ StartsWithGemini
    /\ Len(reply.msgs) = 3
    /\ reply.msgs[1] = Message(RoleSystem, TextSystem)
    /\ reply.msgs[2].role = RoleUser
    /\ Len(Net) = 1
    /\ Net[1].instruction = [set |-> TRUE, text |-> TextSystem]
    /\ Len(Net[1].history) = 1
    /\ reply.res.outcome = "reply"

\* C6 (SpecReply): with the credential of the backend the model id selects
\* empty, getReply returns a missing-credential error and no request goes out,
\* whether or not the other credential is set.
SelectedKey == IF StartsWithGemini THEN env.gemini ELSE env.openai
CredentialErrors ==
    {"GEMINI_API_KEY environment variable not set",
     "OPENAI_API_KEY environment variable not set for OpenAI model"}
C6_MissingCredential ==
    (reply.called /\ SelectedKey = <<>>)
        => /\ reply.res.outcome = "error"
           /\ reply.res.err \in CredentialErrors
           /\ Net = <<>>

\* A "gemini" model id, GEMINI_API_KEY empty, OPENAI_API_KEY set, a network
\* that would have answered: the call failed.
C6_Witness ==
    /\ reply.called
    /\ StartsWithGemini
    /\ env.gemini = <<>>
    /\ env.openai = Key
    /\ reply.answer = "ok"
    /\ reply.res.outcome = "error"

\* C7 (Spec): when the provider answers with zero choices or zero candidates,
\* getReply returns an error and the transcript stays the conversation that
\* was passed to the call: no assistant message is appended.
ZeroChoices == reply.called /\ reply.answer = "ok" /\ Len(reply.choices) = 0 /\ Net # <<>>
C7_ZeroChoices ==
    ZeroChoices => (reply.res.outcome = "error" /\ messages = reply.msgs)

\* A chat turn got zero choices: the loop goes on with the user message last.
C7_Witness ==
    /\ ZeroChoices
    /\ pc = "chat"
    /\ reply.res.err \in {"no choices in response", "no candidates in Gemini response"}
    /\ Len(messages) >= 2
    /\ Last(messages).role = RoleUser

====
